---------------------------- MODULE Spec2Model ----------------------------
(* projectlint: configuration normalisation, the per-rule cascade over     *)
(* severity levels (rule.func) and the per-root result records built by    *)
(* the top-level call (module.exports), as written in src/src/index.js     *)
(* lines 223-479 (the current revision of the file) and, for the discovery *)
(* of configuration files (option use_projectlintrc), in                   *)
(* src/unnamed/part_000, which is the same code with that option added.    *)
(* Objects keep the order their keys were written in, arrays are sorted as *)
(* V8 sorts them, and what the call writes in the caller's objects stays.  *)
EXTENDS Integers, Sequences, FiniteSets, TLC

(***************************************************************************)
(* Bounds of the model                                                     *)
(***************************************************************************)
\* longest raw level list a rule is configured with
MaxLevels == 2
\* how many times the caller invokes an exposed fix thunk
MaxFixCalls == 1

(***************************************************************************)
(* JavaScript values                                                       *)
(***************************************************************************)
\* `undefined` for string-like values (configs, fetched results)
Undefined == "undefined"
\* an optional number: <<>> is undefined, <<n>> is the number n
None == <<>>
Some(n) == <<n>>

\* level keys as written by the user: a string name or a number; NoKey is
\* the first element of an entry that has none
Str(s) == [t |-> "string", s |-> s, n |-> 0]
Num(n) == [t |-> "number", s |-> "", n |-> n]
NoKey == [t |-> "undefined", s |-> "", n |-> 0]

\* src/src/index.js:238-250
LevelNames == {"warn", "warning", "error", "critical",
               "ignore", "skipIf", "skip", "disabled"}
levels == [k \in LevelNames |->
             CASE k = "warn"     -> 1
               [] k = "warning"  -> 1
               [] k = "error"    -> 2
               [] k = "critical" -> 3
               [] k = "ignore"   -> -1
               [] k = "skipIf"   -> -2
               [] k = "skip"     -> -3
               [] k = "disabled" -> -4]

\* src/src/index.js:401: levels[key] also finds what the object literal
\* inherits from Object.prototype, and none of that is null
ObjectPrototypeNames == {"constructor", "toString", "valueOf", "hasOwnProperty",
                         "isPrototypeOf", "propertyIsEnumerable",
                         "toLocaleString", "__proto__",
                         "__defineGetter__", "__defineSetter__",
                         "__lookupGetter__", "__lookupSetter__"}

\* thrown values: class is the most specific class the value is an instance of
\* ("Failure" extends "Error"; "other" is a thrown non-Error value);
\* `at` is the 1-based position of the evaluate call that produced the object
\* (0: not produced by an evaluate call), which gives each object its identity
Err(class, payload, at) == [class |-> class, payload |-> payload, at |-> at]
NoError == Err("undefined", "none", 0)

\* mutant: Failure is taken for the base class, so every Error is a Failure
InstanceOfErrorIsFailure(err, errorLevel) ==
  err.class \in {"Failure", "Error"}

\* mutant: the class Error accepts every thrown value
InstanceOfAnything(err, errorLevel) ==
  CASE errorLevel = "Failure" -> err.class = "Failure"
    [] errorLevel = "Error"   -> TRUE
    [] OTHER                  -> FALSE

\* err instanceof errorLevel, errorLevel being the class Failure or Error
\* (src/src/index.js:253, class Failure extends Error)
InstanceOf(err, errorLevel) ==
  CASE errorLevel = "Failure" -> err.class = "Failure"
    [] errorLevel = "Error"   -> err.class \in {"Failure", "Error"}
    [] OTHER                  -> FALSE

(***************************************************************************)
(* Configuration normalisation                                             *)
(***************************************************************************)
\* src/src/index.js:401: levels[key] is neither null nor undefined
HasLevel(key) ==
  key.t = "string" /\ key.s \in LevelNames \cup ObjectPrototypeNames

\* src/src/index.js:395-405: TRUE when unifyRuleLevel throws for the entry
UnifyThrows(entry) ==
  entry.key.t # "number" /\ ~HasLevel(entry.key)

\* src/src/index.js:395-405: the entry with its level key replaced; number
\* is FALSE when what replaced it is not a number (an inherited property of
\* levels), and level is then of no meaning
unifyRuleLevel(entry) ==
  IF entry.key.t = "number"
    THEN [level |-> entry.key.n, config |-> entry.config, number |-> TRUE]
  ELSE IF entry.key.s \in LevelNames
    THEN [level |-> levels[entry.key.s], config |-> entry.config, number |-> TRUE]
  ELSE [level |-> 0, config |-> entry.config, number |-> FALSE]

\* the level of a unified entry as func stores it: the number, or what is
\* not one: the function levels inherits under the key, written as a pair
\* so that it is none of the numbers
ObjectFunction == <<0, 0>>
LevelOf(entry) == IF entry.number THEN Some(entry.level) ELSE ObjectFunction

\* mutant: the comparator b - a
sortRulesConfigDescending(a, b) ==
  IF a.number /\ b.number THEN b.level - a.level ELSE 0

\* src/src/index.js:390-393: the comparator a - b; NaN (a difference with
\* something that is not a number) orders nothing, as 0 does
sortRulesConfig(a, b) ==
  IF a.number /\ b.number THEN a.level - b.level ELSE 0

\* mutant: a run of entries that compare equal is taken for a descending one
IsDescendingOrEqual(s) == sortRulesConfig(s[2], s[1]) <= 0

\* src/src/index.js:385: rules.sort(sortRulesConfig), as the engine the
\* program runs on (V8) sorts an array of fewer than 64 elements: the run
\* the array starts with is found and, when it descends, reversed; each of
\* the elements after it is then put in its place by a binary search among
\* those before it. The run descends when the second element compares below
\* the first
IsDescending(s) == sortRulesConfig(s[2], s[1]) < 0

\* the length of the run s starts with, n of its elements being in it
RECURSIVE RunLength(_, _, _)
RunLength(s, descending, n) ==
  IF n = Len(s) THEN n
  ELSE LET order == sortRulesConfig(s[n + 1], s[n])
       IN IF (descending /\ order >= 0) \/ (~descending /\ order < 0) THEN n
          ELSE RunLength(s, descending, n + 1)

Reverse(s) == [i \in 1..Len(s) |-> s[Len(s) + 1 - i]]

\* how many of the first elements of s stay before pivot: the binary search
\* between left and right, which goes left only when pivot compares below
\* the element in the middle
RECURSIVE InsertionPoint(_, _, _, _)
InsertionPoint(pivot, s, left, right) ==
  IF left >= right THEN left
  ELSE LET mid == left + ((right - left) \div 2)
       IN IF sortRulesConfig(pivot, s[mid + 1]) < 0
            THEN InsertionPoint(pivot, s, left, mid)
            ELSE InsertionPoint(pivot, s, mid + 1, right)

\* the elements of s after the first `start` ones inserted among them
RECURSIVE BinaryInsertionSort(_, _)
BinaryInsertionSort(s, start) ==
  IF start >= Len(s) THEN s
  ELSE LET pivot == s[start + 1]
           left  == InsertionPoint(pivot, s, 0, start)
       IN BinaryInsertionSort(SubSeq(s, 1, left) \o <<pivot>>
                                \o SubSeq(s, left + 1, start)
                                \o SubSeq(s, start + 2, Len(s)),
                              start + 1)

\* mutant: the list is left in input order
SortOmitted(s) == s

Sort(s) ==
  IF Len(s) < 2 THEN s
  ELSE LET n == RunLength(s, IsDescending(s), 2)
       IN BinaryInsertionSort(IF IsDescending(s)
                                THEN Reverse(SubSeq(s, 1, n)) \o SubSeq(s, n + 1, Len(s))
                                ELSE s,
                              n)

\* the keys of a keyed object that are array indices, which Object.entries
\* lists first and in ascending order
IsIndexKey(e) == e.key.t = "number" /\ e.key.n >= 0
IsNameKey(e) == ~IsIndexKey(e)

RECURSIVE Ascending(_)
Ascending(es) ==
  IF es = <<>> THEN <<>>
  ELSE LET i == CHOOSE i \in 1..Len(es) : \A j \in 1..Len(es) : es[i].key.n <= es[j].key.n
       IN <<es[i]>> \o Ascending(SubSeq(es, 1, i - 1) \o SubSeq(es, i + 1, Len(es)))

\* src/src/index.js:375: Object.entries(rules): every key is a string
ObjectEntries(es) ==
  LET ordered == Ascending(SelectSeq(es, IsIndexKey)) \o SelectSeq(es, IsNameKey)
  IN [i \in 1..Len(ordered) |->
        [key    |-> IF ordered[i].key.t = "number"
                      THEN Str(ToString(ordered[i].key.n)) ELSE ordered[i].key,
         config |-> ordered[i].config]]

\* a level key that is neither a string nor a number: the function an
\* inherited property of levels put in its place
FunctionKey == [t |-> "function", s |-> "", n |-> 0]

\* src/src/index.js:404: a unified entry as it stands in the array that
\* holds it: its first element is the level unifyRuleLevel wrote there
AsEntry(e) ==
  [key |-> IF e.number THEN Num(e.level) ELSE FunctionKey, config |-> e.config]

\* src/src/index.js:421-422: a value of the configs mapping as
\* parseRuleConfig receives it. A raw config has a shape (that of its level
\* list: "number", "tuple", "array", "object", "string", or "absent"), the entries
\* written in it, the names top of the other keys of the object that holds
\* the level list under the key rules ({}: the level list is not wrapped)
\* and the value of the member config of that object. Once a call has
\* rewritten the mapping in place, the value is the {config, rules} object
\* of that call: an object with the keys config and rules, rules being an
\* array of [level, config] arrays
AsGiven(v) ==
  IF "shape" \in DOMAIN v THEN v
  ELSE [shape   |-> "array",
        entries |-> [i \in 1..Len(v.rules) |-> AsEntry(v.rules[i])],
        top     |-> {"config", "rules"},
        member  |-> v.config]

\* src/src/index.js:360: rules.rules != null
IsWrapper(raw) == "rules" \in raw.top

\* mutant: delete config.rules is omitted
AuxiliaryKeepsRules(raw) ==
  IF IsWrapper(raw) THEN <<raw.top>> \o raw.member ELSE <<>>

\* src/src/index.js:359-366: the auxiliary config: undefined (<<>>) without
\* the wrapper, else a copy of the wrapper without its key rules. An object
\* is written as the sequence that starts with the set of its keys and goes
\* on with the value of its member config
Auxiliary(raw) ==
  IF IsWrapper(raw) THEN <<raw.top \ {"rules"}>> \o raw.member ELSE <<>>

\* src/src/index.js:375: a keyed object with a key constructor of its own:
\* rules.constructor is then the config written under that key, which has
\* no name 'Object'
OwnConstructor(raw) ==
  /\ raw.shape = "object"
  /\ \E i \in 1..Len(raw.entries) : raw.entries[i].key = Str("constructor")

\* src/src/index.js:368-377: the raw config unified as an array of entries:
\* a keyed object gives its entries, unless a key constructor of its own
\* hides the one it inherits: it is then left as it is, and has no length;
\* an array whose first element is not an array (a tuple, and the empty
\* array) becomes the only entry
Entries(raw) ==
  CASE raw.shape = "object" /\ ~OwnConstructor(raw) -> ObjectEntries(raw.entries)
    [] raw.shape = "object" -> <<>>
    [] raw.shape = "array" /\ raw.entries = <<>> ->
         <<[key |-> NoKey, config |-> Undefined]>>
    [] OTHER -> raw.entries

\* src/src/index.js:357 and 369: TRUE when the raw config is a number that
\* passes the test of line 357: line 369 then reads the identifier number,
\* which nothing declares
ReadsUndeclaredNumber(raw) ==
  raw.shape = "number" /\ (IsWrapper(raw) \/ raw.entries[1].key.n # 0)

\* mutant: an empty array of entries is accepted
parseRuleConfigErrorEmptyAccepted(given) ==
  LET raw == AsGiven(given) IN
  IF raw.shape = "absent" THEN "rules argument must be set"
  ELSE IF raw.shape = "number" /\ ~ReadsUndeclaredNumber(raw)
    THEN "rules argument must be set"
  ELSE IF ReadsUndeclaredNumber(raw) THEN "number is not defined"
  ELSE IF raw.shape = "string" THEN "string is no level list"
  ELSE IF \E i \in 1..Len(Entries(raw)) : UnifyThrows(Entries(raw)[i])
    THEN "Unknown level"
  ELSE "none"

\* src/src/index.js:355-388: the error parseRuleConfig throws for a raw
\* config (message without its backquotes), "none" when it returns. A string
\* is handed to parsedTypeParse of levn (line 372); the one string of the
\* model is the path of a configuration file, which is no level list
parseRuleConfigError(given) ==
  LET raw == AsGiven(given) IN
  IF raw.shape = "absent" THEN "rules argument must be set"
  ELSE IF raw.shape = "number" /\ ~ReadsUndeclaredNumber(raw)
    THEN "rules argument must be set"
  ELSE IF ReadsUndeclaredNumber(raw) THEN "number is not defined"
  ELSE IF raw.shape = "string" THEN "string is no level list"
  ELSE IF Len(Entries(raw)) = 0 THEN "rules argument must not be empty"
  ELSE IF \E i \in 1..Len(Entries(raw)) : UnifyThrows(Entries(raw)[i])
    THEN "Unknown level"
  ELSE "none"

\* src/src/index.js:355-388: the normalised {config, rules} of a raw config
parseRuleConfig(given) ==
  LET raw == AsGiven(given) IN
  [config |-> Auxiliary(raw),
   rules  |-> Sort([i \in 1..Len(Entries(raw)) |-> unifyRuleLevel(Entries(raw)[i])])]

\* src/src/index.js:382 and 399-404: the entry unifyRuleLevel throws for,
\* forEach calling it for one entry after the other (past the last: none)
FirstThrow(es) ==
  LET bad == {i \in 1..Len(es) : UnifyThrows(es[i])}
  IN IF bad = {} THEN Len(es) + 1 ELSE CHOOSE i \in bad : \A j \in bad : i <= j

\* src/src/index.js:376-385 and 404: the raw config as parseRuleConfig leaves
\* it, whether it returns or throws. The entries of an array of tuples, and
\* the tuple that is the only entry, are the caller's own arrays:
\* unifyRuleLevel writes the level in them, up to the entry it throws for,
\* and the sort, when it is reached, reorders the caller's array. The
\* entries of a keyed object are copies. The {config, rules} object of an
\* earlier call holds levels already
RewrittenInPlace(given) ==
  IF "shape" \notin DOMAIN given THEN given
  ELSE IF given.shape \notin {"array", "tuple"} \/ given.entries = <<>> THEN given
  ELSE IF parseRuleConfigError(given) = "none"
    THEN [given EXCEPT !.entries =
            [i \in 1..Len(@) |-> AsEntry(parseRuleConfig(given).rules[i])]]
  ELSE [given EXCEPT !.entries =
          [i \in 1..Len(@) |-> IF i < FirstThrow(@)
                                 THEN AsEntry(unifyRuleLevel(@[i])) ELSE @[i]]]

(***************************************************************************)
(* Inputs of one top-level call                                            *)
(***************************************************************************)
RuleNames == {"dumb", "smart"}
\* the orders the keys of an object with the keys D can be written in
KeyOrders(D) ==
  {s \in [1..Cardinality(D) -> D] : \A i, j \in 1..Cardinality(D) : s[i] = s[j] => i = j}
\* resolve(): the current working directory
Cwd == "cwd"
AllRoots == {Cwd, "a", "b"}
Cascades == AllRoots \X RuleNames

\* level keys the configurations of the model are written with
InputKeys == {Str("warning"), Str("error"), Str("ignore"), Num(2), Str("bogus")}

\* the config of the i-th raw entry: each raw entry has a config of its own
ConfigOf(i) == CASE i = 1 -> "c1" [] i = 2 -> "c2" [] i = 3 -> "c3" [] OTHER -> "cN"

RawEntries(keys) == [i \in 1..Len(keys) |-> [key |-> keys[i], config |-> ConfigOf(i)]]

KeySeqs == UNION {[1..n -> InputKeys] : n \in 1..MaxLevels}

\* raw configs: an array of [levelKey, config] tuples, or nothing at all
RawConfigs ==
  {[shape |-> "array", entries |-> RawEntries(ks), top |-> {}, member |-> <<>>] : ks \in KeySeqs}
  \cup {[shape |-> "absent", entries |-> <<>>, top |-> {}, member |-> <<>>]}

\* what a rule declares
RuleDecls == [evaluate : BOOLEAN, fetch : BOOLEAN, fix : BOOLEAN]

\* options.errorLevel as passed (Undefined: not passed)
ErrorLevelOptions == {Undefined, "failure", "error", "bogus"}

\* options.use_projectlintrc as passed (Undefined: not passed)
UseProjectlintrcOptions == {Undefined, "true", "false"}

\* what explorer.search(projectRoot) returns: nothing, or the result object
\* {config, filepath} of cosmiconfig: the content of the configuration file
\* found, and the path of the file, a string
FilePath == [shape |-> "string", entries |-> <<>>, top |-> {}, member |-> <<>>]
ResultKeys == <<"config", "filepath">>
NotFound == [found |-> FALSE, result |-> <<>>]
Found(content) ==
  [found |-> TRUE, result |-> [config |-> content, filepath |-> FilePath]]

\* options.projectRoot as passed
ProjectRootOptions ==
  {[t |-> "undefined", s |-> "", a |-> <<>>],
   [t |-> "string", s |-> "a", a |-> <<>>],
   [t |-> "array", s |-> "", a |-> <<"a", "b", "a">>]}

\* values fetch fulfils with, and reasons it rejects with
FetchValues == {Undefined, "data"}
FetchReasons == {Err("Error", "fetch", 0), Err("Failure", "fetch", 0)}

\* what one evaluate call does: the kind of value it returns, or the class of
\* the value it throws
ReturnKinds == {"undefined", "falsy", "emptyArray", "emptyObject",
                "array", "object", "true", "Error", "Failure", "Promise"}
ThrowKinds == {"Failure", "Error", "other"}
\* how a returned Promise settles: it fulfils, with undefined or with a
\* non-empty array, or rejects with a value of one of the classes
FulfilKinds == {"fulfil", "fulfil array"}
SettleKinds == FulfilKinds \cup {"Failure", "Error", "other"}

(***************************************************************************)
(* State                                                                   *)
(***************************************************************************)
VARIABLES
  rules,        \* argument: rule name -> what the rule declares
  configs,      \* argument: rule name -> raw config, normalised in place
  options,      \* argument: [errorLevel, projectRoot, use_projectlintrc] as passed
  args,         \* which of the arguments "rules" and "configs" are passed
  written,      \* how the caller wrote them: the order of the keys of rules
                \* and of configs, and whether configs is an array of
                \* [ruleName, config] entries
  input,        \* the configs argument as it was when the call was made
                \* (kept by SpecParse and SpecCall, <<>> otherwise)
  env,          \* the collaborators: crash, the roots tasksEngine throws for,
                \* and search, what explorer.search returns for each root
  handed,       \* per root: whether tasksEngine was called for it and
                \* returned, and the configs it was called with
  phase,        \* "init": not called yet, "returned", "threw"
  thrown,       \* message of the error the call threw, "none" otherwise
  errorLevel,   \* the class errorLevel names: "Failure", "Error" (Undefined before)
  projectRoot,  \* the normalised list of roots: the keys of the returned object
  cascade,      \* per (root, rule): the state of projectRules[rule].func and of
                \* the projectRules[rule] object it writes
  evaluated,    \* per (root, rule): the `evaluated` promise of the returned object
  fixCalls      \* per (root, rule): the arguments the rule's fix was called with

vars == <<rules, configs, options, args, written, input, env, handed, phase,
          thrown, errorLevel, projectRoot, cascade, evaluated, fixCalls>>

\* the function stored in rule.fix (src/src/index.js:337-346) with the
\* variables it closes over; NoFix: rule.fix is undefined
NoFix == [set |-> FALSE, config |-> Undefined, error |-> NoError, result |-> Undefined]
FixThunk(config, error, result) ==
  [set |-> TRUE, config |-> config, error |-> error, result |-> result]

Pending == [state |-> "pending", value |-> Undefined, reason |-> NoError]
Fulfilled(v) == [state |-> "fulfilled", value |-> v, reason |-> NoError]
Rejected(e) == [state |-> "rejected", value |-> Undefined, reason |-> e]

\* src/src/index.js:285-350: the rule object normalizeRules builds; level,
\* failure, fix and result are not set until func sets them
NewRule == [level |-> None, failure |-> NoError, fix |-> NoFix, result |-> Undefined]

\* one execution of rule.func: pc is where it stands, idx the entry of the
\* level list the loop is at, error/fixConfig/result its local variables,
\* promise the promise the async function returned; fetchCalls, fetched (the
\* value fetch fulfilled with), evaluateCalls
\* (the entries evaluate was called for) and log (how the outcome of each
\* call was classified, with the value the try block threw) record what it did
NoCascade ==
  [pc |-> "none", idx |-> 0, error |-> NoError, fixConfig |-> Undefined,
   result |-> Undefined, rule |-> NewRule, promise |-> Pending,
   fetchCalls |-> 0, fetched |-> Undefined, evaluateCalls |-> <<>>, log |-> <<>>]

\* no record: the value of an `evaluated` promise that has not fulfilled
NoRecord ==
  [keys |-> {}, error |-> NoError, failure |-> NoError, fix |-> NoFix,
   level |-> None, result |-> Undefined]

\* an `evaluated` promise: pending, fulfilled with a record, or rejected
EvaluatedPending == [state |-> "pending", value |-> NoRecord, reason |-> NoError]

(***************************************************************************)
(* rule.func, src/src/index.js:289-349                                     *)
(***************************************************************************)
\* mutant: the thunk is exposed whenever the rule declares fix
ReturnAlwaysFix(s, fix) ==
  [s EXCEPT !.pc = "resolved",
            !.rule.fix = IF fix THEN FixThunk(s.fixConfig, s.error, s.result) ELSE @,
            !.promise = Fulfilled(s.result)]

\* lines 335-348: after the loop, expose the fix thunk and return result
Return(s, fix) ==
  [s EXCEPT !.pc = "resolved",
            !.rule.fix = IF s.error # NoError /\ fix
                           THEN FixThunk(s.fixConfig, s.error, s.result)
                           ELSE @,
            !.promise = Fulfilled(s.result)]

\* mutant: after the last entry the loop does not end, and func never returns
NextEntryNeverReturns(s, ls, fix) ==
  IF s.idx < Len(ls) THEN [s EXCEPT !.idx = @ + 1, !.pc = "loop"]
  ELSE [s EXCEPT !.pc = "stalled"]

\* line 297: the loop goes to the next entry, or ends
NextEntry(s, ls, fix) ==
  IF s.idx < Len(ls) THEN [s EXCEPT !.idx = @ + 1, !.pc = "loop"]
  ELSE Return(s, fix)

\* mutant: the catch block records every caught value and never rethrows
CatchSwallows(s, err, ls, el, fix) ==
  NextEntry([s EXCEPT !.rule.level = LevelOf(ls[s.idx]),
                      !.rule.failure = err,
                      !.error = err,
                      !.fixConfig = ls[s.idx].config,
                      !.log = Append(@, [outcome |-> "failure", err |-> err])],
            ls, fix)

\* lines 320-333: the catch block, for the entry the loop is at
Catch(s, err, ls, el, fix) ==
  LET s1 == [s EXCEPT !.rule.level = LevelOf(ls[s.idx])] IN
  IF ~InstanceOf(err, el)
    THEN [s1 EXCEPT !.rule.result = s.result,
                    !.promise = Rejected(err),
                    !.pc = "rejected",
                    !.log = Append(@, [outcome |-> "fatal", err |-> err])]
    ELSE NextEntry([s1 EXCEPT !.rule.failure = err,
                              !.error = err,
                              !.fixConfig = ls[s.idx].config,
                              !.log = Append(@, [outcome |-> "failure", err |-> err])],
                   ls, fix)

\* mutant: every truthy value evaluate returns is a failure, the empty array
\* and the empty plain object too
EvaluationThrowTruthy(evaluation, at) ==
  IF evaluation = "Promise" THEN NoError
  ELSE IF evaluation \in {"Error", "Failure"} THEN Err(evaluation, "none", at)
  ELSE IF evaluation \notin {"undefined", "falsy"}
    THEN Err("Failure", evaluation, at)
  ELSE NoError

\* lines 307-318: what the try block throws for a value evaluate returned
\* (NoError: nothing); a Promise is awaited instead
EvaluationThrow(evaluation, at) ==
  IF evaluation = "Promise" THEN NoError
  ELSE IF evaluation \in {"Error", "Failure"} THEN Err(evaluation, "none", at)
  ELSE IF evaluation \in {"array", "emptyArray"}
    THEN IF evaluation = "array" THEN Err("Failure", evaluation, at) ELSE NoError
  ELSE IF evaluation \notin {"undefined", "falsy"}
    THEN IF evaluation # "emptyObject" THEN Err("Failure", evaluation, at)
         ELSE NoError
  ELSE NoError

\* line 308: what await evaluation throws (NoError: nothing): the value the
\* Promise fulfils with is dropped, the reason it rejects with is thrown
AwaitThrow(how, at) ==
  IF how \in FulfilKinds THEN NoError ELSE Err(how, "none", at)

\* line 295, and the loop entered
EnterLoop(s) == [s EXCEPT !.rule.level = Some(0), !.idx = 1, !.pc = "loop"]

\* mutant: the loop is entered without calling fetch
FuncCalledNoFetch(s, fetch) == EnterLoop(s)

\* lines 291-293: func is called; fetch, if declared, is called and awaited
FuncCalled(s, fetch) ==
  IF fetch THEN [s EXCEPT !.pc = "fetch", !.fetchCalls = @ + 1]
  ELSE EnterLoop(s)

\* mutant: evaluate is called twice for the entry
EvaluateCalledTwice(s) ==
  [s EXCEPT !.evaluateCalls = Append(Append(@, s.idx), s.idx)]

\* lines 300-305: evaluate is called for the entry the loop is at
EvaluateCalled(s) == [s EXCEPT !.evaluateCalls = Append(@, s.idx)]

\* the try block completed normally
Passed(s, ls, fix) ==
  NextEntry([s EXCEPT !.log = Append(@, [outcome |-> "success", err |-> NoError])],
            ls, fix)

(***************************************************************************)
(* module.exports, src/unnamed/part_000:201-276 (src/src/index.js:408-476  *)
(* is the same call without the option use_projectlintrc)                  *)
(***************************************************************************)
\* the place of the key r among the keys of an object
Place(keys, r) == CHOOSE i \in 1..Len(keys) : keys[i] = r

Range(seq) == {seq[i] : i \in 1..Len(seq)}

\* part_000:65-66: the first key, in the order of Object.entries(configs),
\* whose config parseRuleConfig rejects (0: none)
FirstBadConfig(cfgs, keys) ==
  LET bad == {i \in 1..Len(keys) : parseRuleConfigError(cfgs[keys[i]]) # "none"}
  IN IF bad = {} THEN 0 ELSE CHOOSE i \in bad : \A j \in bad : i <= j

\* part_000:60-69: the object normalizeConfigs works on, as it returns it or
\* leaves it when it throws: the values before the first rejected one are
\* replaced by their {config, rules}, the rejected one is as parseRuleConfig
\* left it, those after it are untouched
NormalizedConfigs(cfgs, keys) ==
  LET bad == FirstBadConfig(cfgs, keys) IN
  [r \in DOMAIN cfgs |->
     IF bad = 0 \/ Place(keys, r) < bad THEN parseRuleConfig(cfgs[r])
     ELSE IF Place(keys, r) = bad THEN RewrittenInPlace(cfgs[r])
     ELSE cfgs[r]]

\* part_000:62-66: the configs argument after the call. An object is the
\* object normalizeConfigs works on; an array of [ruleName, config] entries
\* is copied by Object.fromEntries and keeps its entries, whose raw configs
\* parseRuleConfig wrote in
CallerConfigs(cfgs, keys, array) ==
  LET bad == FirstBadConfig(cfgs, keys) IN
  IF ~array THEN NormalizedConfigs(cfgs, keys)
  ELSE [r \in DOMAIN cfgs |->
          IF bad = 0 \/ Place(keys, r) <= bad THEN RewrittenInPlace(cfgs[r])
          ELSE cfgs[r]]

\* part_000:60-69: the error normalizeConfigs throws, "none" when it returns
normalizeConfigsError(cfgs, keys) ==
  IF FirstBadConfig(cfgs, keys) = 0 THEN "none"
  ELSE parseRuleConfigError(cfgs[keys[FirstBadConfig(cfgs, keys)]])

\* mutant: "error" selects the class Failure as "failure" does
ErrorLevelClassSame(opt) ==
  CASE opt \in {Undefined, "failure", "error"} -> "Failure"
    [] OTHER                                   -> Undefined

\* part_000:218-224
ErrorLevelClass(opt) ==
  CASE opt \in {Undefined, "failure"} -> "Failure"
    [] opt = "error"                 -> "Error"
    [] OTHER                         -> Undefined

\* part_000:204: use_projectlintrc = true unless passed
UseProjectlintrc == options.use_projectlintrc # "false"

\* part_000:48-51 and 230: projectRoot.filter(filterDuplicated, [])
RECURSIVE FilterDuplicated(_, _)
FilterDuplicated(list, seen) ==
  IF list = <<>> THEN <<>>
  ELSE IF Head(list) \in seen THEN FilterDuplicated(Tail(list), seen)
  ELSE <<Head(list)>> \o FilterDuplicated(Tail(list), seen \cup {Head(list)})

\* mutant: no root stands in for a projectRoot that is absent or empty
NormalizedProjectRootNoDefault(p) ==
  LET list == IF p.t = "string" THEN <<p.s>> ELSE p.a
  IN IF Len(list) > 1 THEN FilterDuplicated(list, {}) ELSE list

\* part_000:226-230
NormalizedProjectRoot(p) ==
  LET list == IF p.t = "undefined" \/ (p.t = "string" /\ p.s = "")
                 \/ (p.t = "array" /\ p.a = <<>>) THEN <<Cwd>>
              ELSE IF p.t = "string" THEN <<p.s>>
              ELSE p.a
  IN IF Len(list) > 1 THEN FilterDuplicated(list, {}) ELSE list

\* part_000:71-74, 209 and 238: the first rule, in the order of
\* Object.entries(rules), that normalizeRules rejects (0: none)
FirstWithoutEvaluate ==
  LET bad == {i \in 1..Len(written.rules) : ~rules[written.rules[i]].evaluate}
  IN IF bad = {} THEN 0 ELSE CHOOSE i \in bad : \A j \in bad : i <= j

\* mutant: a rule without evaluate is accepted
normalizeRulesErrorOmitted == "none"

\* part_000:73-74: the error normalizeRules throws for the rules of the call
normalizeRulesError ==
  IF FirstWithoutEvaluate = 0 THEN "none"
  ELSE "'evaluate' function not defined for rule '"
         \o written.rules[FirstWithoutEvaluate] \o "'"

\* part_000:244: deepmerge of two objects (target, source), each written as
\* the auxiliary config is (<<>>: undefined): the keys of both; the member
\* config is that of target when source has none, the merge of the two when
\* both hold an object, and that of source otherwise
RECURSIVE MergeObject(_, _)
MergeObject(target, source) ==
  IF target = <<>> THEN source
  ELSE <<Head(target) \cup Head(source)>> \o
       (IF "config" \notin Head(source) THEN Tail(target)
        ELSE IF "config" \notin Head(target) \/ Tail(source) = <<>> THEN Tail(source)
        ELSE MergeObject(Tail(target), Tail(source)))

\* part_000:244: merge(found, given), deepmerge with its default options: an
\* entry of one side only is taken as it is; for a rule both sides configure,
\* the level lists are concatenated, found first and unsorted, and the member
\* config is that of given when it is no object (undefined included), else
\* the merge of the two
Merge(found, given) ==
  [r \in DOMAIN found \cup DOMAIN given |->
     IF r \notin DOMAIN given THEN found[r]
     ELSE IF r \notin DOMAIN found THEN given[r]
     ELSE [config |-> IF given[r].config = <<>> THEN <<>>
                      ELSE MergeObject(found[r].config, given[r].config),
           rules  |-> found[r].rules \o given[r].rules]]

\* part_000:249: what tasksEngine throws when called for a root ("none": it
\* returns): it throws for the roots of env.crash, for an empty mapping of
\* rules and for an empty mapping of configs
\* (src/__tests__/index.js:375-383 and 399-413)
TasksEngineError(root, cfgs) ==
  IF root \in env.crash THEN "tasksEngine crashed"
  ELSE IF DOMAIN rules = {} THEN "No validators are defined"
  ELSE IF DOMAIN cfgs = {} THEN "No rules are defined"
  ELSE "none"

NotHanded == [called |-> FALSE, configs |-> <<>>]

\* part_000:240-247: the value of the variable configs after the discovery
\* step for a root (set: it is not undefined): normalizeConfigs is called
\* with the result object of the search
Discovered(root, cfg) ==
  IF UseProjectlintrc /\ env.search[root].found
    THEN [set |-> TRUE,
          map |-> Merge(NormalizedConfigs(env.search[root].result, ResultKeys),
                        cfg.map)]
    ELSE cfg

\* mutant: nothing found and nothing passed is not looked for
RootErrorNotFoundAccepted(root, cfg) ==
  IF normalizeRulesError # "none" THEN normalizeRulesError
  ELSE IF UseProjectlintrc /\ env.search[root].found
          /\ normalizeConfigsError(env.search[root].result, ResultKeys) # "none"
    THEN normalizeConfigsError(env.search[root].result, ResultKeys)
  ELSE "none"

\* part_000:237-249: the error that ends the callback of reduce for a root
RootError(root, cfg) ==
  IF normalizeRulesError # "none" THEN normalizeRulesError
  ELSE IF UseProjectlintrc /\ env.search[root].found
          /\ normalizeConfigsError(env.search[root].result, ResultKeys) # "none"
    THEN normalizeConfigsError(env.search[root].result, ResultKeys)
  ELSE IF UseProjectlintrc /\ ~env.search[root].found /\ ~cfg.set
    THEN "config not found, and configs argument not set"
  ELSE TasksEngineError(root, Discovered(root, cfg).map)

\* part_000:235-275: projectRoot.reduce over the roots left, cfg being the
\* variable configs the callback reads and assigns, acc what was done so far
RECURSIVE Reduce(_, _, _)
Reduce(roots, cfg, acc) ==
  IF roots = <<>> THEN acc
  ELSE IF RootError(Head(roots), cfg) # "none"
    THEN [acc EXCEPT !.error = RootError(Head(roots), cfg)]
  ELSE Reduce(Tail(roots), Discovered(Head(roots), cfg),
              [acc EXCEPT !.handed[Head(roots)] =
                 [called |-> TRUE, configs |-> Discovered(Head(roots), cfg).map]])

\* part_000:235: the reduce of the call, from the normalised arguments
Reduced ==
  Reduce(NormalizedProjectRoot(options.projectRoot),
         [set |-> "configs" \in args,
          map |-> IF "configs" \in args
                    THEN NormalizedConfigs(configs, written.configs) ELSE <<>>],
         [error |-> "none", handed |-> [root \in AllRoots |-> NotHanded]])

\* mutant: configs is looked at before rules
ArgumentsErrorConfigsFirst ==
  IF "configs" \notin args /\ ~UseProjectlintrc
    THEN "configs argument must be set, or use_projectlintrc flag must be enabled"
  ELSE IF "rules" \notin args THEN "rules argument must be set"
  ELSE IF "configs" \in args /\ normalizeConfigsError(configs, written.configs) # "none"
    THEN normalizeConfigsError(configs, written.configs)
  ELSE IF ErrorLevelClass(options.errorLevel) = Undefined THEN "Unknown errorLevel"
  ELSE "none"

\* part_000:207-224: the error the call throws before it reaches the reduce
\* (messages without their backquotes), "none" when it reaches it
ArgumentsError ==
  IF "rules" \notin args THEN "rules argument must be set"
  ELSE IF "configs" \in args /\ normalizeConfigsError(configs, written.configs) # "none"
    THEN normalizeConfigsError(configs, written.configs)
  ELSE IF "configs" \notin args /\ ~UseProjectlintrc
    THEN "configs argument must be set, or use_projectlintrc flag must be enabled"
  ELSE IF ErrorLevelClass(options.errorLevel) = Undefined THEN "Unknown errorLevel"
  ELSE "none"

\* the message of the error the call throws, "none" when it returns
CallError ==
  IF ArgumentsError # "none" THEN ArgumentsError ELSE Reduced.error

\* part_000:272: the keys of the returned object, in the order of their
\* first assignment
RECURSIVE AcumKeys(_, _)
AcumKeys(roots, keys) ==
  IF roots = <<>> THEN keys
  ELSE AcumKeys(Tail(roots),
                IF Head(roots) \in Range(keys) THEN keys ELSE Append(keys, Head(roots)))

\* the top-level call, made in the phase before, which ends in the phase
\* returned or in the phase threw
Call(before, returned, threw) ==
  /\ phase = before
  /\ configs' = IF "rules" \in args /\ "configs" \in args
                  THEN CallerConfigs(configs, written.configs, written.array)
                  ELSE configs
  /\ errorLevel' = IF "rules" \in args /\ ArgumentsError \in {"none", "Unknown errorLevel"}
                     THEN ErrorLevelClass(options.errorLevel)
                     ELSE errorLevel
  /\ IF ArgumentsError # "none"
       THEN /\ phase' = threw
            /\ thrown' = ArgumentsError
            /\ projectRoot' = <<>>
            /\ UNCHANGED <<handed, cascade>>
       ELSE /\ phase' = IF Reduced.error # "none" THEN threw ELSE returned
            /\ thrown' = Reduced.error
            /\ projectRoot' = IF Reduced.error # "none" THEN <<>>
                              ELSE AcumKeys(NormalizedProjectRoot(options.projectRoot), <<>>)
            /\ handed' = Reduced.handed
            \* lines 238 and 249: fresh projectRules per root, handed to
            \* tasksEngine, which visits the rules that have a config
            /\ cascade' = [c \in Cascades |->
                             IF /\ Reduced.handed[c[1]].called
                                /\ c[2] \in DOMAIN rules
                                /\ c[2] \in DOMAIN Reduced.handed[c[1]].configs
                               THEN [NoCascade EXCEPT !.pc = "start"]
                               ELSE NoCascade]
  /\ UNCHANGED <<rules, options, args, written, input, env, evaluated, fixCalls>>

\* the first call with the arguments
Projectlint == Call("init", "returned", "threw")

\* a second call with the same rules, configs and options objects, after the
\* first returned or threw
ProjectlintAgain ==
  \/ Call("returned", "returned again", "threw again")
  \/ Call("threw", "returned again", "threw again")

\* the level list tasksEngine passes to func: that of the configs it was
\* called with for the root
LevelList(c) == handed[c[1]].configs[c[2]].rules
DeclaresFix(c) == rules[c[2]].fix

\* mutant: the rule objects are built once, before the roots are visited, so
\* that the roots share the object of a rule
RuleObjectOfCall(c) == <<Cwd, c[2]>>

\* src/unnamed/part_000:238 (src/src/index.js:447): projectRules is built
\* inside the callback of reduce, so each root has a rule object of its own
\* for each rule; the object func and the handlers of a root and rule write
\* and read is named by the pair where the model keeps it
RuleObject(c) == c

\* the execution of func for c, with the rule object it works on
Load(c) == [cascade[c] EXCEPT !.rule = cascade[RuleObject(c)].rule]

\* the executions once that of c has become s: what s wrote in the rule
\* object is kept where the object is
Store(c, s) ==
  IF RuleObject(c) = c THEN [cascade EXCEPT ![c] = s]
  ELSE [cascade EXCEPT ![c] = [s EXCEPT !.rule = cascade[c].rule],
                       ![RuleObject(c)].rule = s.rule]

\* tasksEngine calls projectRules[rule].func
Func(c) ==
  /\ cascade[c].pc = "start"
  /\ cascade' = Store(c, FuncCalled(Load(c), rules[c[2]].fetch))
  /\ UNCHANGED <<rules, configs, options, args, written, input, env, handed, phase,
                 thrown, errorLevel, projectRoot, evaluated, fixCalls>>

\* line 293: the awaited fetch fulfils with v
FetchFulfils(c, v) ==
  /\ cascade[c].pc = "fetch"
  /\ cascade' = Store(c, EnterLoop([Load(c) EXCEPT !.result = v, !.fetched = v]))
  /\ UNCHANGED <<rules, configs, options, args, written, input, env, handed, phase,
                 thrown, errorLevel, projectRoot, evaluated, fixCalls>>

\* line 293: the awaited fetch rejects; func rejects with the reason
FetchRejects(c, reason) ==
  /\ cascade[c].pc = "fetch"
  /\ cascade' = Store(c, [Load(c) EXCEPT !.pc = "rejected",
                                          !.promise = Rejected(reason)])
  /\ UNCHANGED <<rules, configs, options, args, written, input, env, handed, phase,
                 thrown, errorLevel, projectRoot, evaluated, fixCalls>>

\* lines 298-333: evaluate is called for the current entry and returns a value
EvaluateReturns(c, evaluation) ==
  /\ cascade[c].pc = "loop"
  /\ LET s   == EvaluateCalled(Load(c))
         err == EvaluationThrow(evaluation, s.idx)
     IN cascade' = Store(c,
          IF evaluation = "Promise" THEN [s EXCEPT !.pc = "await"]
          ELSE IF err # NoError
            THEN Catch(s, err, LevelList(c), errorLevel, DeclaresFix(c))
          ELSE Passed(s, LevelList(c), DeclaresFix(c)))
  /\ UNCHANGED <<rules, configs, options, args, written, input, env, handed, phase,
                 thrown, errorLevel, projectRoot, evaluated, fixCalls>>

\* lines 298-333: evaluate is called for the current entry and throws
EvaluateThrows(c, class) ==
  /\ cascade[c].pc = "loop"
  /\ LET s == EvaluateCalled(Load(c))
     IN cascade' = Store(c,
          Catch(s, Err(class, "none", s.idx), LevelList(c), errorLevel, DeclaresFix(c)))
  /\ UNCHANGED <<rules, configs, options, args, written, input, env, handed, phase,
                 thrown, errorLevel, projectRoot, evaluated, fixCalls>>

\* line 308: the awaited Promise settles
EvaluationSettles(c, how) ==
  /\ cascade[c].pc = "await"
  /\ LET s   == Load(c)
         err == AwaitThrow(how, s.idx)
     IN cascade' = Store(c,
          IF err = NoError THEN Passed(s, LevelList(c), DeclaresFix(c))
          ELSE Catch(s, err, LevelList(c), errorLevel, DeclaresFix(c)))
  /\ UNCHANGED <<rules, configs, options, args, written, input, env, handed, phase,
                 thrown, errorLevel, projectRoot, evaluated, fixCalls>>

\* mutant: the fulfilment handler reads result from the rule object, as the
\* rejection handler does
OnFulfilledRuleResult(rule, result) ==
  [keys |-> {"failure", "fix", "level", "result"},
   error |-> NoError, failure |-> rule.failure, fix |-> rule.fix,
   level |-> rule.level, result |-> rule.result]

\* lines 456-461: the fulfilment handler of promise.then
OnFulfilled(rule, result) ==
  [keys |-> {"failure", "fix", "level", "result"},
   error |-> NoError, failure |-> rule.failure, fix |-> rule.fix,
   level |-> rule.level, result |-> result]

\* mutant: the rejection record also copies failure from the rule object
OnRejectedWithFailure(rule, error) ==
  [keys |-> {"error", "failure", "level", "result"},
   error |-> error, failure |-> rule.failure, fix |-> NoFix,
   level |-> rule.level, result |-> rule.result]

\* lines 462-467: the rejection handler of promise.then
OnRejected(rule, error) ==
  [keys |-> {"error", "level", "result"},
   error |-> error, failure |-> NoError, fix |-> NoFix,
   level |-> rule.level, result |-> rule.result]

\* mutant: promise.then(onFulfilled) alone: a rejection passes through
ThenWithoutOnRejected(promise, rule) ==
  IF promise.state = "fulfilled"
    THEN [state |-> "fulfilled", value |-> OnFulfilled(rule, promise.value),
          reason |-> NoError]
    ELSE [state |-> "rejected", value |-> NoRecord, reason |-> promise.reason]

\* lines 455-467: promise.then(onFulfilled, onRejected) for a settled promise:
\* the new promise fulfils with what the handler that runs returns
Then(promise, rule) ==
  IF promise.state = "fulfilled"
    THEN [state |-> "fulfilled", value |-> OnFulfilled(rule, promise.value),
          reason |-> NoError]
    ELSE [state |-> "fulfilled", value |-> OnRejected(rule, promise.reason),
          reason |-> NoError]

\* lines 455-467: func's promise has settled and `evaluated` settles
Evaluated(c) ==
  /\ cascade[c].promise.state # "pending"
  /\ evaluated[c].state = "pending"
  /\ evaluated' = [evaluated EXCEPT ![c] = Then(cascade[c].promise, Load(c).rule)]
  /\ UNCHANGED <<rules, configs, options, args, written, input, env, handed, phase,
                 thrown, errorLevel, projectRoot, cascade, fixCalls>>

\* lines 337-346: the caller invokes the fix thunk of a record
InvokeFix(c) ==
  /\ evaluated[c].value.fix.set
  /\ Len(fixCalls[c]) < MaxFixCalls
  /\ fixCalls' = [fixCalls EXCEPT ![c] =
       Append(@, [config |-> evaluated[c].value.fix.config,
                  error  |-> evaluated[c].value.fix.error,
                  result |-> evaluated[c].value.fix.result])]
  /\ UNCHANGED <<rules, configs, options, args, written, input, env, handed, phase,
                 thrown, errorLevel, projectRoot, cascade, evaluated>>

\* calls over several roots are explored for rules that declare fetch and fix
\* and are configured with the single level "warning"
SeveralRootsInputs ==
  options.projectRoot.t = "array" =>
    /\ \A r \in DOMAIN rules :
         /\ rules[r] = [evaluate |-> TRUE, fetch |-> TRUE, fix |-> TRUE]
         /\ configs[r].shape = "array"
         /\ Len(configs[r].entries) = 1
         /\ configs[r].entries[1].key = Str("warning")
    /\ options.errorLevel \in {Undefined, "error"}

\* the arguments written for the one rule dumb, configs as an object
OneRule == [rules |-> <<"dumb">>, configs |-> <<"dumb">>, array |-> FALSE]

\* no collaborator fails and no configuration file is found
QuietEnv == [crash |-> {}, search |-> [root \in AllRoots |-> NotFound]]

\* the state before anything is called
NotCalled ==
  /\ handed = [root \in AllRoots |-> NotHanded]
  /\ phase = "init"
  /\ thrown = "none"
  /\ errorLevel = Undefined
  /\ projectRoot = <<>>
  /\ cascade = [c \in Cascades |-> NoCascade]
  /\ evaluated = [c \in Cascades |-> EvaluatedPending]
  /\ fixCalls = [c \in Cascades |-> <<>>]

\* calls of the rule "dumb" with both arguments passed and no configuration
\* file to be found for any root
Init ==
  /\ rules \in [{"dumb"} -> RuleDecls]
  /\ configs \in [{"dumb"} -> RawConfigs]
  /\ options \in [errorLevel : ErrorLevelOptions, projectRoot : ProjectRootOptions,
                  use_projectlintrc : {Undefined}]
  /\ args = {"rules", "configs"}
  /\ written = OneRule
  /\ env = QuietEnv
  /\ SeveralRootsInputs
  /\ input = <<>>
  /\ NotCalled

Next ==
  \/ Projectlint
  \/ \E c \in Cascades : Func(c)
  \/ \E c \in Cascades, v \in FetchValues : FetchFulfils(c, v)
  \/ \E c \in Cascades, r \in FetchReasons : FetchRejects(c, r)
  \/ \E c \in Cascades, e \in ReturnKinds : EvaluateReturns(c, e)
  \/ \E c \in Cascades, k \in ThrowKinds : EvaluateThrows(c, k)
  \/ \E c \in Cascades, h \in SettleKinds : EvaluationSettles(c, h)
  \/ \E c \in Cascades : Evaluated(c)
  \/ \E c \in Cascades : InvokeFix(c)

Spec == Init /\ [][Next]_vars

(***************************************************************************)
(* Normalisation of one raw config by the top-level call                   *)
(***************************************************************************)
\* the level names, names that differ from one in case, an unknown name, a
\* property every object inherits, and numbers
NormalizationKeys ==
  {Str(k) : k \in LevelNames}
  \cup {Str("Warning"), Str("ERROR"), Str("bogus"), Str("constructor"), Num(2), Num(-1)}

\* the lists of keys raw configs are written with
NormalizationKeySeqs == UNION {[1..n -> NormalizationKeys] : n \in 0..MaxLevels}

Distinct(ks) == \A i, j \in 1..Len(ks) : ks[i] = ks[j] => i = j

\* the numbers a raw config is written as when it is a bare level
BareLevels == {0, 2, -1}

\* level lists of every accepted shape: a bare level, a [levelKey, config]
\* tuple, an array of tuples, a keyed object (its keys are distinct)
LevelListValues ==
  {[shape |-> "array", entries |-> RawEntries(ks), top |-> {}, member |-> <<>>] :
     ks \in NormalizationKeySeqs}
  \cup {[shape |-> "tuple", entries |-> RawEntries(ks), top |-> {}, member |-> <<>>] :
          ks \in {ks \in NormalizationKeySeqs : Len(ks) = 1}}
  \cup {[shape |-> "object", entries |-> RawEntries(ks), top |-> {}, member |-> <<>>] :
          ks \in {ks \in NormalizationKeySeqs : Distinct(ks)}}
  \cup {[shape |-> "number", entries |-> <<[key |-> Num(n), config |-> Undefined]>>,
         top |-> {}, member |-> <<>>] : n \in BareLevels}

\* the keys an object that wraps a level list has: rules alone, or rules
\* and another key
WrapperKeys == {{"rules"}, {"rules", "extra"}}

\* raw configs: a level list, a level list under the key rules of an object,
\* or nothing at all
NormalizationRaws ==
  LevelListValues
  \cup {[v EXCEPT !.top = t] : v \in LevelListValues, t \in WrapperKeys}
  \cup {[shape |-> "absent", entries |-> <<>>, top |-> {}, member |-> <<>>]}

\* a rule that declares evaluate and fetch
PlainRule == [evaluate |-> TRUE, fetch |-> TRUE, fix |-> FALSE]

\* part_000:204: the options of a call that passes none: errorLevel is
\* 'failure', projectRoot the working directory, and configuration files
\* are looked for
DefaultOptions ==
  [errorLevel |-> Undefined, projectRoot |-> [t |-> "undefined", s |-> "", a |-> <<>>],
   use_projectlintrc |-> Undefined]

InitParse ==
  /\ rules = [r \in {"dumb"} |-> PlainRule]
  /\ configs \in [{"dumb"} -> NormalizationRaws]
  /\ options = DefaultOptions
  /\ args = {"rules", "configs"}
  /\ written \in [rules : {<<"dumb">>}, configs : {<<"dumb">>}, array : BOOLEAN]
  /\ env = QuietEnv
  /\ input = configs
  /\ NotCalled

NextParse == Projectlint

SpecParse == InitParse /\ [][NextParse]_vars

\* two calls with the same objects, for the raw configs of SpecParse
NextAgain == Projectlint \/ ProjectlintAgain

SpecAgain == InitParse /\ [][NextAgain]_vars

(***************************************************************************)
(* Calls with any arguments, over any roots, with collaborators that fail  *)
(***************************************************************************)
\* longest array passed as options.projectRoot
MaxRoots == 3

RootSeqs == UNION {[1..n -> {"a", "b"}] : n \in 0..MaxRoots}

\* options.projectRoot: not passed, a string (the empty one too), an array
RootOptions ==
  {[t |-> "undefined", s |-> "", a |-> <<>>]}
  \cup {[t |-> "string", s |-> x, a |-> <<>>] : x \in {"", "a"}}
  \cup {[t |-> "array", s |-> "", a |-> q] : q \in RootSeqs}

ArrayOf(ks) == [shape |-> "array", entries |-> RawEntries(ks), top |-> {}, member |-> <<>>]
Absent == [shape |-> "absent", entries |-> <<>>, top |-> {}, member |-> <<>>]
EmptyObject == [shape |-> "object", entries |-> <<>>, top |-> {}, member |-> <<>>]
\* the content of a configuration file that configures the rule dumb: an
\* object with the key dumb
FileForDumb ==
  [shape |-> "object", entries |-> RawEntries(<<Str("dumb")>>), top |-> {}, member |-> <<>>]

\* rules passed: any mapping of the rule names, with or without evaluate
ArgumentRules ==
  UNION {[D -> [evaluate : BOOLEAN, fetch : {TRUE}, fix : {FALSE}]] :
           D \in SUBSET RuleNames}

\* the arguments: rules and configs passed or not, rules that lack evaluate,
\* configs that are absent, empty or name an unknown level, every errorLevel
InitArguments ==
  /\ args \in SUBSET {"rules", "configs"}
  /\ rules \in ArgumentRules
  /\ "rules" \notin args => rules = <<>>
  /\ configs \in UNION {[D -> {ArrayOf(<<Str("warning")>>), Absent,
                                ArrayOf(<<Str("bogus")>>), ArrayOf(<<>>),
                                EmptyObject}] :
                          D \in {{}, DOMAIN rules}}
  /\ "configs" \notin args => configs = <<>>
  /\ written \in [rules : KeyOrders(DOMAIN rules), configs : KeyOrders(DOMAIN configs),
                  array : IF "configs" \in args THEN BOOLEAN ELSE {FALSE}]
  /\ options \in [errorLevel : ErrorLevelOptions,
                  projectRoot : {[t |-> "undefined", s |-> "", a |-> <<>>]},
                  use_projectlintrc : UseProjectlintrcOptions]
  /\ env \in [crash : {{}},
              search : {[root \in AllRoots |-> x] :
                          x \in {NotFound, Found(FileForDumb)}}]

\* the roots: every options.projectRoot, tasksEngine throwing for any of them
InitRoots ==
  /\ args = {"rules", "configs"}
  /\ rules = [r \in {"dumb"} |-> PlainRule]
  /\ configs = [r \in {"dumb"} |-> ArrayOf(<<Str("warning")>>)]
  /\ written = OneRule
  /\ options \in [errorLevel : {Undefined}, projectRoot : RootOptions,
                  use_projectlintrc : {Undefined}]
  /\ env \in [crash : SUBSET AllRoots, search : {[root \in AllRoots |-> NotFound]}]

\* the discovery of configuration files: for each root nothing is found, or
\* a file that configures the rule dumb, or a file that holds an empty object
InitDiscovery ==
  /\ args \in {{"rules"}, {"rules", "configs"}}
  /\ rules = [r \in {"dumb"} |-> PlainRule]
  /\ configs = IF "configs" \in args
                 THEN [r \in {"dumb"} |-> ArrayOf(<<Str("warning")>>)] ELSE <<>>
  /\ written = [OneRule EXCEPT !.configs = IF "configs" \in args THEN @ ELSE <<>>]
  /\ options \in [errorLevel : {Undefined},
                  projectRoot : {[t |-> "undefined", s |-> "", a |-> <<>>],
                                 [t |-> "array", s |-> "", a |-> <<"a", "b">>]},
                  use_projectlintrc : UseProjectlintrcOptions]
  /\ env \in [crash : {{}},
              search : [AllRoots -> {NotFound, Found(FileForDumb), Found(EmptyObject)}]]

InitCall ==
  /\ InitArguments \/ InitRoots \/ InitDiscovery
  /\ input = configs
  /\ NotCalled

\* the call, and the rules running: fetch fulfils or rejects, evaluate
\* returns nothing or a non-empty array, or throws an Error
NextCall ==
  \/ Projectlint
  \/ \E c \in Cascades : Func(c)
  \/ \E c \in Cascades : FetchFulfils(c, "data")
  \/ \E c \in Cascades : FetchRejects(c, Err("Error", "fetch", 0))
  \/ \E c \in Cascades, e \in {"undefined", "array"} : EvaluateReturns(c, e)
  \/ \E c \in Cascades : EvaluateThrows(c, "Error")
  \/ \E c \in Cascades : Evaluated(c)

SpecCall == InitCall /\ [][NextCall]_vars

(***************************************************************************)
(* The rules running to their end: one call for the rule dumb, which       *)
(* declares fetch and fix, for the current working directory or for the    *)
(* roots a and b, every pending operation being one that settles           *)
(***************************************************************************)
InitLive ==
  /\ rules = [r \in {"dumb"} |-> [evaluate |-> TRUE, fetch |-> TRUE, fix |-> TRUE]]
  /\ configs \in [{"dumb"} -> RawConfigs]
  /\ options \in [errorLevel : {Undefined, "error"},
                  projectRoot : {[t |-> "undefined", s |-> "", a |-> <<>>],
                                 [t |-> "array", s |-> "", a |-> <<"a", "b">>]},
                  use_projectlintrc : {Undefined}]
  /\ args = {"rules", "configs"}
  /\ written = OneRule
  /\ env = QuietEnv
  /\ SeveralRootsInputs
  /\ input = <<>>
  /\ NotCalled

\* what func and the handlers of a root and rule do next: tasksEngine calls
\* func, fetch settles, evaluate returns or throws, the Promise it returned
\* settles, the handler of promise.then runs
Step(c) ==
  \/ Func(c)
  \/ FetchFulfils(c, "data")
  \/ FetchRejects(c, Err("Error", "fetch", 0))
  \/ \E e \in {"undefined", "array", "Promise"} : EvaluateReturns(c, e)
  \/ EvaluateThrows(c, "Error")
  \/ \E h \in {"fulfil", "Failure", "Error"} : EvaluationSettles(c, h)
  \/ Evaluated(c)

NextLive == Projectlint \/ \E c \in Cascades : Step(c)

\* tasksEngine calls the func of every rule it was handed, synchronous code
\* runs on, the handlers of settled promises are run by the job queue, and
\* fetch and evaluate are taken to settle: whatever a root and rule has
\* pending is eventually done
Fairness == \A c \in Cascades : WF_vars(Step(c))

SpecLive == InitLive /\ [][NextLive]_vars /\ Fairness

(***************************************************************************)
(* Properties of the cascade                                               *)
(***************************************************************************)
\* the calls of evaluate whose outcome was caught and recorded as a failure
FailedCalls(s, el) ==
  {k \in 1..Len(s.log) : s.log[k].err # NoError /\ InstanceOf(s.log[k].err, el)}

\* the calls of evaluate whose outcome was thrown on as a fatal error
FatalCalls(s, el) ==
  {k \in 1..Len(s.log) : s.log[k].err # NoError /\ ~InstanceOf(s.log[k].err, el)}

Max(S) == CHOOSE x \in S : \A y \in S : y <= x

LevelsOf(ls) == [i \in 1..Len(ls) |-> ls[i].level]

\* C1: when the cascade finishes without a fatal error and at least one
\* level's check failed recoverably, the level recorded is the highest level
\* whose check failed, the failure recorded is the object produced at that
\* level, and the fix target is that level's config
C1_WorstFailureRetained ==
  \A c \in Cascades :
    LET s  == cascade[c]
        F  == FailedCalls(s, errorLevel)
    IN (s.pc = "resolved" /\ F # {}) =>
         LET ls    == LevelList(c)
             worst == Max({ls[k].level : k \in F})
         IN /\ s.rule.level = Some(worst)
            /\ \E k \in F : /\ ls[k].level = worst
                            /\ s.rule.failure = s.log[k].err
                            /\ s.fixConfig = ls[k].config
                            /\ DeclaresFix(c) => s.rule.fix.config = ls[k].config
            /\ evaluated[c].state = "fulfilled" =>
                 /\ evaluated[c].value.level = Some(worst)
                 /\ evaluated[c].value.failure = s.rule.failure

\* C1 witness: levels 1 and 2, the value violates only the first: level 1 and
\* the first level's config are retained
C1_Witness ==
  \E c \in Cascades :
    /\ cascade[c].pc = "resolved"
    /\ LevelsOf(LevelList(c)) = <<1, 2>>
    /\ cascade[c].log[1].outcome = "failure"
    /\ cascade[c].log[2].outcome = "success"
    /\ evaluated[c].state = "fulfilled"
    /\ evaluated[c].value.level = Some(1)
    /\ evaluated[c].value.fix.set
    /\ evaluated[c].value.fix.config = LevelList(c)[1].config

\* C2: when every level's check succeeds, the record has no failure, no fix,
\* no error and an undefined level
C2_SuccessLeavesLevelUndefined ==
  \A c \in Cascades :
    LET s == cascade[c] IN
    (/\ s.pc = "resolved"
     /\ \A k \in 1..Len(s.log) : s.log[k].outcome = "success"
     /\ evaluated[c].state = "fulfilled")
    => /\ evaluated[c].value.failure = NoError
       /\ evaluated[c].value.fix = NoFix
       /\ evaluated[c].value.error = NoError
       /\ evaluated[c].value.level = None

\* C3: a fatal error at a level aborts the cascade: no later level is
\* evaluated, no fix thunk is constructed or invoked, the execute call rejects
\* with that same error and the record carries it in `error`
C3_FatalAborts ==
  \A c \in Cascades :
    LET s == cascade[c] IN
    \A k \in FatalCalls(s, errorLevel) :
      /\ k = Len(s.log)
      /\ s.evaluateCalls = [i \in 1..k |-> i]
      /\ s.pc = "rejected"
      /\ s.promise = Rejected(s.log[k].err)
      /\ s.rule.fix = NoFix
      /\ fixCalls[c] = <<>>
      /\ evaluated[c].state # "pending" =>
           /\ evaluated[c].state = "fulfilled"
           /\ "error" \in evaluated[c].value.keys
           /\ evaluated[c].value.error = s.log[k].err
           /\ evaluated[c].value.fix = NoFix

\* C3 witness: the first of two levels ends in a fatal error after which the
\* record has been produced, in a rule that declares fix
C3_Witness ==
  \E c \in Cascades :
    /\ cascade[c].pc = "rejected"
    /\ Len(LevelList(c)) = 2
    /\ DeclaresFix(c)
    /\ FatalCalls(cascade[c], errorLevel) = {1}
    /\ evaluated[c].state = "fulfilled"

\* C4: with errorLevel "failure" (or none given) an Error that is not a
\* Failure coming out of evaluate is fatal: the execute call rejects with it,
\* the record carries it in `error`, and it is not recorded as a failure
C4_PlainErrorFatalUnderFailure ==
  options.errorLevel \in {Undefined, "failure"} =>
    \A c \in Cascades :
      LET s == cascade[c] IN
      \A k \in 1..Len(s.log) :
        s.log[k].err.class = "Error" =>
          /\ s.log[k].outcome = "fatal"
          /\ s.promise = Rejected(s.log[k].err)
          /\ s.rule.failure # s.log[k].err
          /\ evaluated[c].state # "pending" =>
               /\ evaluated[c].value.error = s.log[k].err
               /\ evaluated[c].value.failure = NoError

\* C4 witness: the default errorLevel, evaluate threw an Error and the record
\* has been produced
C4_Witness ==
  \E c \in Cascades :
    /\ options.errorLevel = Undefined
    /\ Len(cascade[c].log) = 1
    /\ cascade[c].log[1].err.class = "Error"
    /\ evaluated[c].state = "fulfilled"
    /\ evaluated[c].value.error.class = "Error"

\* C5 as stated: with errorLevel "error" an Error that is not a Failure coming
\* out of evaluate is a fatal rejection and is not recorded as a failure
C5_PlainErrorFatalUnderError ==
  options.errorLevel = "error" =>
    \A c \in Cascades :
      LET s == cascade[c] IN
      \A k \in 1..Len(s.log) :
        s.log[k].err.class = "Error" =>
          /\ s.promise = Rejected(s.log[k].err)
          /\ s.rule.failure # s.log[k].err

\* C5 amended: with errorLevel "error" an Error that is not a Failure coming
\* out of evaluate is caught and recorded as the failure of that level: the
\* execute call does not reject with it, and a cascade that ends with it as
\* its last failure reports it in `failure` with that level
C5_PlainErrorRecordedUnderError ==
  options.errorLevel = "error" =>
    \A c \in Cascades :
      LET s == cascade[c] IN
      \A k \in 1..Len(s.log) :
        s.log[k].err.class = "Error" =>
          /\ s.log[k].outcome = "failure"
          /\ s.promise.reason # s.log[k].err
          /\ k = Len(s.log) =>
               /\ s.rule.failure = s.log[k].err
               /\ s.rule.level = Some(LevelList(c)[k].level)
          /\ (k = Max(FailedCalls(s, errorLevel)) /\ evaluated[c].state = "fulfilled"
              /\ s.pc = "resolved") =>
               /\ evaluated[c].value.failure = s.log[k].err
               /\ evaluated[c].value.error = NoError

\* C5 witness: errorLevel "error", evaluate threw an Error and the record
\* carries it as the failure
C5_Witness ==
  \E c \in Cascades :
    /\ options.errorLevel = "error"
    /\ evaluated[c].state = "fulfilled"
    /\ evaluated[c].value.failure.class = "Error"
    /\ evaluated[c].value.level # None

\* C6: a thrown value (or rejection reason) that is neither an Error nor a
\* Failure is fatal whatever errorLevel is: the execute call rejects with it
\* and it is never recorded as a failure
C6_NonErrorAlwaysFatal ==
  \A c \in Cascades :
    LET s == cascade[c] IN
    \A k \in 1..Len(s.log) :
      s.log[k].err.class = "other" =>
        /\ s.log[k].outcome = "fatal"
        /\ s.promise = Rejected(s.log[k].err)
        /\ s.rule.failure # s.log[k].err
        /\ evaluated[c].state # "pending" =>
             /\ evaluated[c].value.error = s.log[k].err
             /\ evaluated[c].value.failure = NoError

\* C6 witness: errorLevel "error", a non-Error value was thrown at the second
\* level and the record carries it in `error`
C6_Witness ==
  \E c \in Cascades :
    /\ options.errorLevel = "error"
    /\ Len(cascade[c].log) = 2
    /\ cascade[c].log[2].err.class = "other"
    /\ evaluated[c].state = "fulfilled"
    /\ evaluated[c].value.error.class = "other"

\* C7: a declared fetch is called exactly once per execute call and no
\* evaluate call is made while it is pending; when it rejects, evaluate is
\* never called, no fix thunk is constructed and the execute call rejects
C7_FetchOnceBeforeEvaluate ==
  \A c \in Cascades :
    LET s == cascade[c] IN
    /\ s.pc \notin {"none", "start"} =>
         s.fetchCalls = (IF rules[c[2]].fetch THEN 1 ELSE 0)
    /\ s.pc \in {"none", "start", "fetch"} => s.evaluateCalls = <<>>
    /\ (s.promise.state = "rejected" /\ s.promise.reason \in FetchReasons) =>
         /\ s.evaluateCalls = <<>>
         /\ s.log = <<>>
         /\ s.rule.fix = NoFix
         /\ s.pc = "rejected"
         /\ evaluated[c].state # "pending" => evaluated[c].value.fix = NoFix

\* C7 witness: a rule that declares fetch and fix, whose fetch rejected, with
\* its record produced
C7_Witness ==
  \E c \in Cascades :
    /\ cascade[c].pc = "rejected"
    /\ rules[c[2]].fetch /\ rules[c[2]].fix
    /\ cascade[c].promise.reason \in FetchReasons
    /\ cascade[c].fetchCalls = 1
    /\ evaluated[c].state = "fulfilled"

\* C8: after a cascade with no fatal error a fix thunk is exposed iff a
\* failure was recorded and the rule declares fix; fix is not called while
\* execute runs; a call of the thunk calls fix with the config of the worst
\* failing level, the fetched result and the recorded failure
C8_FixThunk ==
  \A c \in Cascades :
    LET s == cascade[c]
        F == FailedCalls(s, errorLevel)
    IN /\ s.pc = "resolved" =>
            /\ s.rule.fix.set <=> (F # {} /\ DeclaresFix(c))
            /\ evaluated[c].state = "fulfilled" => evaluated[c].value.fix = s.rule.fix
       /\ s.promise.state = "pending" => fixCalls[c] = <<>>
       /\ \A i \in 1..Len(fixCalls[c]) :
            /\ F # {}
            /\ LevelList(c)[Max(F)].level = Max({LevelList(c)[k].level : k \in F})
            /\ fixCalls[c][i].config = LevelList(c)[Max(F)].config
            /\ fixCalls[c][i].result = s.fetched
            /\ fixCalls[c][i].error = s.log[Max(F)].err
            /\ fixCalls[c][i].error = s.rule.failure

\* C8 witness: fix was called through the thunk after a cascade over two
\* levels whose first level failed, with a fetched value
C8_Witness ==
  \E c \in Cascades :
    /\ fixCalls[c] # <<>>
    /\ cascade[c].fetched = "data"
    /\ Len(cascade[c].log) = 2
    /\ cascade[c].log[1].outcome = "failure"
    /\ cascade[c].log[2].outcome = "success"
    /\ fixCalls[c][1].config = LevelList(c)[1].config

\* C9: whenever execute resolves, its value and the record's `result` are the
\* value fetch produced (undefined without fetch), failure recorded or not
C9_ResultIsFetched ==
  \A c \in Cascades :
    LET s == cascade[c] IN
    s.promise.state = "fulfilled" =>
      /\ s.promise.value = s.fetched
      /\ ~rules[c[2]].fetch => s.promise.value = Undefined
      /\ evaluated[c].state # "pending" => evaluated[c].value.result = s.fetched

\* C9 witness: a failure was recorded and the record's result is the fetched
\* value
C9_Witness ==
  \E c \in Cascades :
    /\ cascade[c].fetched = "data"
    /\ cascade[c].rule.failure # NoError
    /\ evaluated[c].state = "fulfilled"
    /\ evaluated[c].value.result = "data"
    /\ "failure" \in evaluated[c].value.keys

\* C10: once the call has returned, nothing a rule does makes the call throw
\* or an `evaluated` promise reject: the record is produced by fulfilment,
\* with `failure` when the check failed recoverably and `error` when the
\* rule's function rejected
C10_EvaluatedNeverRejects ==
  \A c \in Cascades :
    LET s == cascade[c]
        F == FailedCalls(s, errorLevel)
    IN /\ evaluated[c].state # "rejected"
       /\ s.pc # "none" => (phase = "returned" /\ thrown = "none")
       /\ (s.promise.state # "pending" /\ evaluated[c].state # "pending") =>
            /\ evaluated[c].state = "fulfilled"
            /\ (s.pc = "resolved" /\ F # {}) =>
                 /\ evaluated[c].value.failure = s.log[Max(F)].err
                 /\ evaluated[c].value.error = NoError
            /\ s.pc = "rejected" =>
                 /\ evaluated[c].value.error = s.promise.reason
                 /\ evaluated[c].value.error # NoError

\* C10 witness: the same rule over two roots, its function rejected for one
\* and a failure recorded for the other, both records produced by fulfilment
C10_Witness ==
  \E c, d \in Cascades :
    /\ phase = "returned"
    /\ c # d
    /\ cascade[c].pc = "rejected"
    /\ cascade[c].log # <<>>
    /\ evaluated[c].state = "fulfilled"
    /\ evaluated[c].value.error = cascade[c].log[1].err
    /\ cascade[d].pc = "resolved"
    /\ evaluated[d].state = "fulfilled"
    /\ evaluated[d].value.failure # NoError

\* C11: every per-rule record has one of two shapes: when the rule's function
\* resolved it carries failure, fix, level and result and no error; when it
\* rejected it carries error, level and result and neither failure nor fix;
\* no record carries both an error and a failure
C11_RecordShapes ==
  \A c \in Cascades :
    evaluated[c].state = "fulfilled" =>
      LET rec == evaluated[c].value IN
      /\ cascade[c].pc \in {"resolved", "rejected"}
      /\ cascade[c].pc = "resolved" =>
           /\ rec.keys = {"failure", "fix", "level", "result"}
           /\ rec.error = NoError
      /\ cascade[c].pc = "rejected" =>
           /\ rec.keys = {"error", "level", "result"}
           /\ rec.error # NoError
           /\ rec.failure = NoError
           /\ rec.fix = NoFix
      /\ ~(rec.error # NoError /\ rec.failure # NoError)

\* C11 witness: a failure was recorded on the rule object at one level, a
\* later level was fatal, and the record carries the error alone
C11_Witness ==
  \E c \in Cascades :
    /\ cascade[c].pc = "rejected"
    /\ cascade[c].rule.failure # NoError
    /\ evaluated[c].state = "fulfilled"
    /\ evaluated[c].value.error # NoError
    /\ evaluated[c].value.keys = {"error", "level", "result"}

\* C12: when a fatal error aborts the cascade, the level of the rejected
\* record is the level of the last failure recorded before the fatal error
\* (unset if none was recorded, as when the first level is the fatal one) and
\* its result is the fetched value
C12_RejectedLevelIsLastFailure ==
  \A c \in Cascades :
    LET s == cascade[c]
        F == FailedCalls(s, errorLevel)
    IN (/\ s.pc = "rejected"
        /\ FatalCalls(s, errorLevel) # {}
        /\ evaluated[c].state = "fulfilled") =>
         /\ evaluated[c].value.level =
              IF F = {} THEN None
              ELSE Some(LevelList(c)[s.evaluateCalls[Max(F)]].level)
         /\ evaluated[c].value.result = s.fetched

(***************************************************************************)
(* Properties of the top-level call                                        *)
(***************************************************************************)
\* the list of roots an option value stands for, repetitions included
RootsMeant(p) ==
  IF p.t = "undefined" \/ (p.t = "string" /\ p.s = "") \/ (p.t = "array" /\ p.a = <<>>)
    THEN <<Cwd>>
  ELSE IF p.t = "string" THEN <<p.s>>
  ELSE p.a

FirstSeen(list, x) == CHOOSE i \in 1..Len(list) : list[i] = x /\ \A j \in 1..(i - 1) : list[j] # x

\* the call threw an error about its arguments or its configuration, not one
\* of a collaborator that crashed
ConfigurationErrorThrown == phase = "threw" /\ thrown # "tasksEngine crashed"

\* C13: the result of a call that returns has exactly one entry per distinct
\* root of options.projectRoot, in first-seen order: a repeated root gives one
\* entry, a string is a list of one, an absent or empty value gives the one
\* entry of the current working directory; tasksEngine was called for each
C13_OneEntryPerDistinctRoot ==
  phase = "returned" =>
    LET meant == RootsMeant(options.projectRoot) IN
    /\ Range(projectRoot) = Range(meant)
    /\ \A i, j \in 1..Len(projectRoot) :
         /\ projectRoot[i] = projectRoot[j] => i = j
         /\ i < j => FirstSeen(meant, projectRoot[i]) < FirstSeen(meant, projectRoot[j])
    /\ \A root \in AllRoots : handed[root].called <=> root \in Range(meant)

\* C13 witness: a root passed twice, around another one, gives two entries
C13_Witness ==
  /\ phase = "returned"
  /\ options.projectRoot.t = "array"
  /\ options.projectRoot.a = <<"b", "a", "b">>
  /\ projectRoot = <<"b", "a">>

\* C14: when tasksEngine throws for one root, the call still returns, with
\* an entry for every other root
C14_RootCrashIsolated ==
  (phase # "init" /\ env.crash # {}) =>
    \A root \in Range(RootsMeant(options.projectRoot)) \ env.crash :
      /\ phase = "returned"
      /\ root \in Range(projectRoot)

\* C15: when the call throws a configuration error, no fetch and no evaluate
\* of any rule is started for any root, before the error or after it
C15_ConfigurationErrorBeforeAnyRule ==
  ConfigurationErrorThrown =>
    \A c \in Cascades :
      cascade[c].fetchCalls = 0 /\ cascade[c].evaluateCalls = <<>>

\* no rule of the call was handed to tasksEngine
NoRuleHanded == \A c \in Cascades : cascade[c].pc = "none"

\* C18: the call fails with a configuration error when rules is absent or is
\* an empty mapping, and hands no rule to the executor; when rules and
\* configs are both absent the error is the one about rules
C18_RulesRequired ==
  phase # "init" =>
    /\ "rules" \notin args =>
         (phase = "threw" /\ thrown = "rules argument must be set")
    /\ ("rules" \in args /\ DOMAIN rules = {}) =>
         (ConfigurationErrorThrown /\ NoRuleHanded)

\* C18 witness: neither rules nor configs is passed, discovery is switched
\* off, and the error thrown is the one about rules
C18_Witness ==
  /\ args = {}
  /\ options.use_projectlintrc = "false"
  /\ phase = "threw"
  /\ thrown = "rules argument must be set"

\* C19: when configs is absent the call fails with a configuration error:
\* with discovery switched off, with the error about configs; with
\* discovery on, whenever no configuration is found for one of the roots,
\* and with the error of the configuration not found when that root is the
\* first and the rules and errorLevel are accepted
C19_ConfigsRequired ==
  (phase # "init" /\ "rules" \in args /\ "configs" \notin args) =>
    /\ options.use_projectlintrc = "false" =>
         /\ phase = "threw"
         /\ thrown = "configs argument must be set, or use_projectlintrc flag must be enabled"
    /\ (/\ options.use_projectlintrc # "false"
        /\ \E root \in Range(RootsMeant(options.projectRoot)) : ~env.search[root].found)
         => ConfigurationErrorThrown
    /\ (/\ options.use_projectlintrc # "false"
        /\ ~env.search[RootsMeant(options.projectRoot)[1]].found
        /\ options.errorLevel \in {Undefined, "failure", "error"}
        /\ \A r \in DOMAIN rules : rules[r].evaluate)
         => (phase = "threw" /\ thrown = "config not found, and configs argument not set")

\* C19 witness: rules are passed, configs is not, discovery is left on, no
\* configuration file is found, and the call threw the error that says so
C19_Witness ==
  /\ "rules" \in args
  /\ "configs" \notin args
  /\ DOMAIN rules # {}
  /\ options.use_projectlintrc = Undefined
  /\ \A root \in AllRoots : ~env.search[root].found
  /\ phase = "threw"
  /\ thrown = "config not found, and configs argument not set"

EvaluateMessage(r) == "'evaluate' function not defined for rule '" \o r \o "'"

NormalizationMessages ==
  {"rules argument must be set", "rules argument must not be empty", "Unknown level"}

\* configs was passed with raw configs that normalise, or is left to the
\* discovery, and errorLevel is one of the two names
OtherArgumentsAccepted ==
  /\ "configs" \in args => \A r \in DOMAIN input : parseRuleConfigError(input[r]) = "none"
  /\ "configs" \notin args => options.use_projectlintrc # "false"
  /\ options.errorLevel \in {Undefined, "failure", "error"}

\* C20: when a rule of the call lacks evaluate, the call throws a
\* configuration error and hands no rule to the executor; the error names a
\* rule that lacks evaluate, the first of them in the order rules was
\* written in, when the other arguments are accepted, and is the error of
\* the normalisation of the configs when a rule's raw config is absent
C20_EvaluateRequired ==
  (/\ phase # "init"
   /\ "rules" \in args
   /\ \E r \in DOMAIN rules : ~rules[r].evaluate) =>
    /\ ConfigurationErrorThrown
    /\ NoRuleHanded
    /\ OtherArgumentsAccepted =>
         \E i \in 1..Len(written.rules) :
           /\ ~rules[written.rules[i]].evaluate
           /\ \A j \in 1..(i - 1) : rules[written.rules[j]].evaluate
           /\ thrown = EvaluateMessage(written.rules[i])
    /\ ("configs" \in args /\ \E r \in DOMAIN input : input[r].shape = "absent") =>
         thrown \in NormalizationMessages

\* C20 witness: rules is written with smart before dumb, neither declares
\* evaluate, both are configured, and the error names smart
C20_Witness ==
  /\ written.rules = <<"smart", "dumb">>
  /\ ~rules["dumb"].evaluate
  /\ ~rules["smart"].evaluate
  /\ DOMAIN input = {"dumb", "smart"}
  /\ phase = "threw"
  /\ thrown = EvaluateMessage("smart")

(***************************************************************************)
(* Properties of the normalisation                                         *)
(***************************************************************************)
\* the number each level name stands for
SeverityOf(name) ==
  CASE name \in {"warn", "warning"} -> 1
    [] name = "error"    -> 2
    [] name = "critical" -> 3
    [] name = "ignore"   -> -1
    [] name = "skipIf"   -> -2
    [] name = "skip"     -> -3
    [] name = "disabled" -> -4

SeverityNames == {"warn", "warning", "error", "critical",
                  "ignore", "skipIf", "skip", "disabled"}

\* C16: for every string used as a level key in a tuple or an array of
\* tuples, normalisation gives warn and warning 1, error 2, critical 3,
\* ignore -1, skipIf -2, skip -3 and disabled -4, and fails with the
\* configuration error of an unknown level for every other string
C16_LevelNamesResolved ==
  (phase # "init" /\ input["dumb"].shape \in {"array", "tuple"}) =>
    LET es == input["dumb"].entries IN
    /\ (\E i \in 1..Len(es) : es[i].key.t = "string" /\ es[i].key.s \notin SeverityNames)
         => (phase = "threw" /\ thrown = "Unknown level")
    /\ phase = "returned" =>
         \A i \in 1..Len(es) :
           (es[i].key.t = "string" /\ es[i].key.s \in SeverityNames) =>
             \E j \in 1..Len(handed[Cwd].configs["dumb"].rules) :
               /\ handed[Cwd].configs["dumb"].rules[j].config = es[i].config
               /\ handed[Cwd].configs["dumb"].rules[j].number
               /\ handed[Cwd].configs["dumb"].rules[j].level = SeverityOf(es[i].key.s)

\* a raw config of an accepted shape whose keys are level names or numbers
WellFormed(raw) ==
  /\ raw.shape \in {"tuple", "array", "object"}
  /\ raw.entries # <<>>
  /\ \A i \in 1..Len(raw.entries) :
       \/ raw.entries[i].key.t = "number"
       \/ raw.entries[i].key.t = "string" /\ raw.entries[i].key.s \in SeverityNames

Orderings(n) == {p \in [1..n -> 1..n] : \A i, j \in 1..n : p[i] = p[j] => i = j}

Permuted(raw, p) ==
  [raw EXCEPT !.entries = [i \in 1..Len(raw.entries) |-> raw.entries[p[i]]]]

\* C17: the level list a well-formed raw config is normalised to is sorted
\* ascending by level, has the entries of the input, and has the same
\* sequence of levels as the list of any permutation of the input entries
C17_SortedWhateverTheOrder ==
  (phase = "returned" /\ WellFormed(input["dumb"])) =>
    LET raw == input["dumb"]
        ls  == handed[Cwd].configs["dumb"].rules
    IN /\ \A i \in 1..(Len(ls) - 1) : ls[i].level <= ls[i + 1].level
       /\ Len(ls) = Len(raw.entries)
       /\ \A p \in Orderings(Len(raw.entries)) :
            /\ parseRuleConfigError(Permuted(raw, p)) = "none"
            /\ LevelsOf(parseRuleConfig(Permuted(raw, p)).rules) = LevelsOf(ls)

\* C17 witness: a keyed object written from the most to the least critical
\* level is normalised to the ascending list
C17_Witness ==
  /\ phase = "returned"
  /\ input["dumb"].shape = "object"
  /\ Len(input["dumb"].entries) >= 2
  /\ input["dumb"].entries[1].key = Str("critical")
  /\ input["dumb"].entries[2].key = Str("skip")
  /\ handed[Cwd].configs["dumb"].rules[1].level = -3
  /\ handed[Cwd].configs["dumb"].rules[Len(handed[Cwd].configs["dumb"].rules)].level = 3

\* a raw config that is absent, an empty keyed object or an empty array
AbsentOrEmpty(raw) ==
  \/ raw.shape = "absent"
  \/ raw.shape \in {"array", "object"} /\ raw.top = {} /\ raw.entries = <<>>

\* C21: when rules and configs are passed and the raw config of a rule is
\* absent, an empty keyed object or an empty array, the call throws one of the
\* configuration errors of the normalisation; and whenever the normalisation
\* of the raw config of any one rule fails, the whole call throws and no rule
\* is handed to the executor
C21_AbsentOrEmptyConfigRejected ==
  (phase # "init" /\ {"rules", "configs"} \subseteq args) =>
    /\ (\E r \in DOMAIN input : AbsentOrEmpty(input[r])) =>
          phase = "threw" /\ thrown \in NormalizationMessages /\ NoRuleHanded
    /\ (\E r \in DOMAIN input : parseRuleConfigError(input[r]) # "none") =>
          phase = "threw" /\ thrown \in NormalizationMessages /\ NoRuleHanded

\* the raw config of dumb normalises, that of smart is an empty keyed object,
\* and the call threw the error of the empty list
C21_Witness ==
  /\ phase = "threw"
  /\ {"rules", "configs"} \subseteq args
  /\ DOMAIN input = {"dumb", "smart"}
  /\ parseRuleConfigError(input["dumb"]) = "none"
  /\ input["smart"] = EmptyObject
  /\ thrown = "rules argument must not be empty"
  /\ NoRuleHanded

\* C22: a second call with the same rules, configs and options objects ends
\* as the first did: it throws the error the first threw, or it returns and
\* hands each rule the level list and the auxiliary config the first call
\* handed it, which are those of the raw config the caller wrote
C22_SecondCallSameAsFirst ==
  phase \in {"returned again", "threw again"} =>
    IF normalizeConfigsError(input, written.configs) = "none"
      THEN /\ phase = "returned again"
           /\ \A r \in DOMAIN input :
                /\ handed[Cwd].configs[r].rules = parseRuleConfig(input[r]).rules
                /\ handed[Cwd].configs[r].config = parseRuleConfig(input[r]).config
      ELSE /\ phase = "threw again"
           /\ thrown = normalizeConfigsError(input, written.configs)

\* the raw config without the object that wraps its level list
Unwrapped(raw) == [raw EXCEPT !.top = {}]

\* C23: when the call returns, a raw config that is an object with a rules
\* key has given the level list the value of rules gives by itself, with one
\* entry per entry of that value, and an auxiliary config that is an object
\* whose keys are the other keys of the raw config, rules not being one of
\* them; a raw config without the wrapper has given the auxiliary config
\* undefined
C23_WrapperSplitsAuxiliaryConfig ==
  (phase = "returned" /\ "dumb" \in DOMAIN input) =>
    LET raw == input["dumb"]
        got == handed[Cwd].configs["dumb"]
    IN /\ IsWrapper(raw) =>
            /\ got.rules = parseRuleConfig(Unwrapped(raw)).rules
            /\ Len(got.rules) = Len(raw.entries)
            /\ Len(got.config) = 1
            /\ got.config[1] = raw.top \ {"rules"}
            /\ "rules" \notin got.config[1]
       /\ ~IsWrapper(raw) => got.config = <<>>

\* a keyed object of two levels under the key rules, beside the key extra:
\* the rule got the two levels and the auxiliary config {extra}
C23_Witness ==
  /\ phase = "returned"
  /\ input["dumb"].shape = "object"
  /\ input["dumb"].top = {"rules", "extra"}
  /\ Len(input["dumb"].entries) = 2
  /\ handed[Cwd].configs["dumb"].config = <<{"extra"}>>
  /\ Len(handed[Cwd].configs["dumb"].rules) = 2

\* C24: in every state of an execution of func, evaluate has been called
\* for the first entries of the level list, once each and in list order, the
\* list being in ascending order of level; every call but the last has been
\* classified, and the last is unclassified only while func awaits the
\* Promise it returned, so that no two evaluations of a rule are pending
\* together; the loop stands at the entry after the last one called, and
\* func returns only after a call for every entry
C24_EvaluationsInOrderOneAtATime ==
  \A c \in Cascades :
    cascade[c].pc \notin {"none", "start", "fetch"} =>
      LET s  == cascade[c]
          ls == LevelList(c)
      IN /\ \A i \in 1..Len(s.evaluateCalls) : s.evaluateCalls[i] = i
         /\ Len(s.evaluateCalls) <= Len(ls)
         /\ \A i, j \in 1..Len(ls) : i < j => ls[i].level <= ls[j].level
         /\ Len(s.log) = Len(s.evaluateCalls) - (IF s.pc = "await" THEN 1 ELSE 0)
         /\ s.pc = "loop" => s.idx = Len(s.evaluateCalls) + 1
         /\ s.pc = "await" => s.idx = Len(s.evaluateCalls)
         /\ s.pc = "resolved" => Len(s.evaluateCalls) = Len(ls)

\* the evaluation of the second entry is awaited, that of the first having
\* been classified
C24_Witness ==
  \E c \in Cascades :
    /\ cascade[c].pc = "await"
    /\ cascade[c].evaluateCalls = <<1, 2>>
    /\ Len(cascade[c].log) = 1
    /\ LevelList(c)[1].level < LevelList(c)[2].level

\* C25: the record of a root and rule is the one the cascade of that root
\* and rule gives, whatever the cascades of the other roots did and in
\* whatever order their steps were taken: when func resolved, its result is
\* what the root's fetch gave, its failure the value its own last failed
\* evaluation threw (none when none failed), its level that evaluation's
\* level, its fix the thunk over that evaluation's config, failure and fetch
\* result; when func rejected, its error is the reason of the root's own func,
\* its level that of the root's own last evaluation
C25_RecordOfItsRootOnly ==
  \A c \in Cascades :
    evaluated[c].state = "fulfilled" =>
      LET s   == cascade[c]
          rec == evaluated[c].value
          ls  == LevelList(c)
          F   == FailedCalls(s, errorLevel)
      IN /\ s.pc = "resolved" =>
              /\ rec.result = s.fetched
              /\ rec.failure = IF F = {} THEN NoError ELSE s.log[Max(F)].err
              /\ rec.level = IF F = {} THEN Some(0) ELSE Some(ls[Max(F)].level)
              /\ rec.fix.set = (F # {} /\ DeclaresFix(c))
              /\ rec.fix.set =>
                   rec.fix = FixThunk(ls[Max(F)].config, s.log[Max(F)].err, s.fetched)
         /\ s.pc = "rejected" =>
              /\ rec.error = s.promise.reason
              /\ rec.level = IF s.log = <<>> THEN None
                             ELSE Some(ls[Len(s.log)].level)
              /\ rec.result = IF s.log = <<>> THEN Undefined ELSE s.fetched

\* the rule was run for the roots a and b: in a fetch gave data and the
\* evaluation failed, in b fetch gave nothing and the evaluation passed, and
\* each record tells its own root's story
C25_Witness ==
  /\ evaluated[<<"a", "dumb">>].state = "fulfilled"
  /\ evaluated[<<"b", "dumb">>].state = "fulfilled"
  /\ evaluated[<<"a", "dumb">>].value.failure # NoError
  /\ evaluated[<<"a", "dumb">>].value.fix.set
  /\ evaluated[<<"a", "dumb">>].value.result = "data"
  /\ evaluated[<<"a", "dumb">>].value.level = Some(1)
  /\ evaluated[<<"b", "dumb">>].value.failure = NoError
  /\ ~evaluated[<<"b", "dumb">>].value.fix.set
  /\ evaluated[<<"b", "dumb">>].value.result = Undefined
  /\ evaluated[<<"b", "dumb">>].value.level = Some(0)

\* the classification the last settled evaluation of s got
LastLogged(s) == s.log[Len(s.log)]

\* C26: a step in which evaluate returns undefined, another falsy value, an
\* empty array or an empty plain object classifies the call as a success; one
\* in which it returns a non-empty array, a plain object with a key or true
\* classifies it as a recoverable failure, a Failure with the value as
\* payload; one in which it returns an Error instance is the step taken when
\* evaluate throws that instance; one in which it returns a Promise
\* classifies nothing and awaits; the awaited Promise fulfilling is a success
\* whatever its value, and its rejection is classified as a thrown value is:
\* a failure when the reason is an instance of the errorLevel class, else
\* the fatal error func rejects with
C26_OutcomeClassification ==
  [][\A c \in Cascades :
       cascade'[c] # cascade[c] =>
       /\ \A e \in {"undefined", "falsy", "emptyArray", "emptyObject"} :
            EvaluateReturns(c, e) =>
              /\ Len(cascade'[c].log) = Len(cascade[c].log) + 1
              /\ LastLogged(cascade'[c]) = [outcome |-> "success", err |-> NoError]
       /\ \A e \in {"array", "object", "true"} :
            EvaluateReturns(c, e) =>
              /\ Len(cascade'[c].log) = Len(cascade[c].log) + 1
              /\ LastLogged(cascade'[c]) =
                   [outcome |-> "failure", err |-> Err("Failure", e, cascade[c].idx)]
              /\ cascade'[c].rule.failure = Err("Failure", e, cascade[c].idx)
       /\ \A e \in {"Error", "Failure"} :
            EvaluateReturns(c, e) => EvaluateThrows(c, e)
       /\ EvaluateReturns(c, "Promise") =>
            /\ cascade'[c].pc = "await"
            /\ cascade'[c].log = cascade[c].log
       /\ \A h \in FulfilKinds :
            EvaluationSettles(c, h) =>
              /\ Len(cascade'[c].log) = Len(cascade[c].log) + 1
              /\ LastLogged(cascade'[c]) = [outcome |-> "success", err |-> NoError]
       /\ \A h \in SettleKinds \ FulfilKinds :
            EvaluationSettles(c, h) =>
              /\ Len(cascade'[c].log) = Len(cascade[c].log) + 1
              /\ LastLogged(cascade'[c]) =
                   [outcome |-> IF InstanceOf(Err(h, "none", cascade[c].idx), errorLevel)
                                  THEN "failure" ELSE "fatal",
                    err |-> Err(h, "none", cascade[c].idx)]
              /\ cascade'[c].pc = "rejected" <=>
                   ~InstanceOf(Err(h, "none", cascade[c].idx), errorLevel)
    ]_vars

\* one call of evaluate returned true and was recorded as a Failure with
\* that payload, and another call was a success
C26_Witness ==
  \E c \in Cascades :
    /\ \E k \in 1..Len(cascade[c].log) :
         cascade[c].log[k] = [outcome |-> "failure", err |-> Err("Failure", "true", k)]
    /\ \E k \in 1..Len(cascade[c].log) : cascade[c].log[k].outcome = "success"
    /\ cascade[c].rule.failure.payload = "true"

\* the place, in the raw config, of the entry a config was written in
InputPosition(config) == CHOOSE i \in 1..(MaxLevels + 1) : ConfigOf(i) = config

\* C27: in the level list func is called with, and returns after, entries of
\* equal level stand in the order the raw config had them; and when func
\* resolves after failures, the failure and the fix target it keeps are those
\* of the entry that, among the failed entries of the highest failed level,
\* came last in the raw config
C27_EqualLevelsKeepInputOrder ==
  \A c \in Cascades :
    cascade[c].pc \in {"start", "resolved"} =>
      LET s  == cascade[c]
          ls == LevelList(c)
          F  == FailedCalls(s, errorLevel)
      IN /\ \A i, j \in 1..Len(ls) :
              (i < j /\ ls[i].level = ls[j].level) =>
                InputPosition(ls[i].config) < InputPosition(ls[j].config)
         /\ (s.pc = "resolved" /\ F # {}) =>
              LET worst == Max({ls[k].level : k \in F})
                  W     == {k \in F : ls[k].level = worst}
                  last  == CHOOSE k \in W :
                             \A m \in W : InputPosition(ls[m].config)
                                            <= InputPosition(ls[k].config)
              IN /\ s.rule.failure = s.log[last].err
                 /\ s.fixConfig = ls[last].config
                 /\ DeclaresFix(c) =>
                      /\ s.rule.fix.config = ls[last].config
                      /\ s.rule.fix.error = s.log[last].err

\* a raw config with the level warning twice was accepted, both entries
\* failed, and the second of them is the one retained
C27_Witness ==
  \E c \in Cascades :
    /\ cascade[c].pc = "resolved"
    /\ LevelsOf(LevelList(c)) = <<1, 1>>
    /\ FailedCalls(cascade[c], errorLevel) = {1, 2}
    /\ cascade[c].fixConfig = "c2"
    /\ cascade[c].rule.failure = cascade[c].log[2].err
    /\ cascade[c].rule.fix.config = "c2"

\* the entries of a raw config whose level key is a number
NumericEntries(raw) == {i \in 1..Len(raw.entries) : raw.entries[i].key.t = "number"}

\* every level key of the raw config is a number or the name of a level
KeysAreLevels(raw) ==
  \A i \in 1..Len(raw.entries) :
    \/ raw.entries[i].key.t = "number"
    \/ raw.entries[i].key.t = "string" /\ raw.entries[i].key.s \in LevelNames

\* C28: a raw config of any accepted shape (bare level, tuple, array of
\* tuples, keyed object) whose level keys are numbers and names of levels is
\* accepted, and each of its entries with a numeric key is in the level list
\* with that number as its level
C28_NumericLevelsKept ==
  (/\ phase # "init"
   /\ input["dumb"].shape \in {"number", "tuple", "array", "object"}
   /\ input["dumb"].entries # <<>>
   /\ KeysAreLevels(input["dumb"])) =>
    /\ phase = "returned"
    /\ \A i \in NumericEntries(input["dumb"]) :
         \E j \in 1..Len(handed[Cwd].configs["dumb"].rules) :
           /\ handed[Cwd].configs["dumb"].rules[j].number
           /\ handed[Cwd].configs["dumb"].rules[j].level = input["dumb"].entries[i].key.n

\* C29: no step of an execution of func replaces the number recorded as the
\* level of the rule by a smaller number
C29_LevelNeverDecreases ==
  [][\A c \in Cascades :
       (cascade[c].rule.level # None /\ cascade'[c].rule.level # None) =>
         cascade'[c].rule.level[1] >= cascade[c].rule.level[1]]_vars

\* C30: after the call the configs mapping the caller passed holds, for every
\* rule, the raw config the caller wrote: the entry is not replaced by its
\* normalised form, its level keys are the names and numbers written, and
\* its entries are in the order written
C30_ConfigsLeftAsPassed ==
  phase # "init" => configs = input

\* func has settled as it should: resolved with what fetch gave after a call
\* of evaluate for every entry, or rejected with the value that was fatal
SettledAsItShould(c) ==
  LET s == cascade[c] IN
  /\ s.pc \in {"resolved", "rejected"}
  /\ s.pc = "resolved" =>
       /\ s.promise = Fulfilled(s.fetched)
       /\ s.evaluateCalls = [i \in 1..Len(LevelList(c)) |-> i]
  /\ s.pc = "rejected" =>
       /\ s.promise.state = "rejected"
       /\ s.log = <<>> => s.promise.reason = Err("Error", "fetch", 0)
       /\ s.log # <<>> =>
            /\ LastLogged(s).outcome = "fatal"
            /\ s.promise.reason = LastLogged(s).err

\* C32: when whatever is pending settles, every func tasksEngine is to call
\* settles, resolved with the fetched result or rejected with the fatal
\* error, and its record is produced; and at no time has evaluate been called
\* twice for an entry of the level list, or more often than the list is long
C32_EveryCascadeSettles ==
  /\ [](\A c \in Cascades :
          cascade[c].pc \notin {"none", "start", "fetch"} =>
            /\ Len(cascade[c].evaluateCalls) <= Len(LevelList(c))
            /\ \A i, j \in 1..Len(cascade[c].evaluateCalls) :
                 cascade[c].evaluateCalls[i] = cascade[c].evaluateCalls[j] => i = j)
  /\ \A c \in Cascades :
       (cascade[c].pc = "start") ~>
         (SettledAsItShould(c) /\ evaluated[c].state = "fulfilled")

\* func resolved after evaluate was called for both entries of the list, the
\* first of which failed, and the record is there
C32_Witness ==
  \E c \in Cascades :
    /\ cascade[c].pc = "resolved"
    /\ cascade[c].evaluateCalls = <<1, 2>>
    /\ cascade[c].log[1].outcome = "failure"
    /\ evaluated[c].state = "fulfilled"
    /\ evaluated[c].value.result = "data"

=============================================================================
